---- MODULE Spec2Model ----
(***************************************************************************)
(* Streaming chat session of key-scribe-conversations: ChatInterface      *)
(* (src/components/chat/ChatInterface.tsx, first revision in the file),   *)
(* the retry buttons of ChatMessage and the thread state kept by Index.   *)
(*                                                                         *)
(* Text is a sequence of tokens, so that appending a content delta is     *)
(* sequence concatenation.  Date.now() is an environment input: `now` is   *)
(* the last value read, `elapsed` tells that a network response has been   *)
(* awaited since (a round trip is longer than the clock's millisecond).    *)
(***************************************************************************)
EXTENDS Integers, Sequences, FiniteSets, TLC

\* ---------------------------------------------------------------- bounds
MaxGens == 2
MaxLines == 3
MaxChunk == 2
MaxNav == 2

\* ------------------------------------------------------------ vocabulary
None == "none"
ThreadIds == {"t1", "t2"}
SidebarThreads == {"t1"}
UserTexts == {<<"hello">>}
\* what ModelSelectionPopover offers besides the selection Index starts with
Catalog == {<<"anthropic", "claude-3-haiku">>}

NoId == [t |-> 0, k |-> "none"]
UserId(t) == [t |-> t, k |-> "user"]
AssistantId(t) == [t |-> t, k |-> "_assistant"]
ServerId(n) == [t |-> n, k |-> "server"]

Message(id, role, content, streaming, provider, model) ==
  [id |-> id, role |-> role, content |-> content, isStreaming |-> streaming,
   provider |-> provider, model |-> model]

\* formattedMessages of loadThreadMessages: id, role, content, timestamp only
Formatted(n, role, content) == Message(ServerId(n), role, content, FALSE, None, None)

StoredThread ==
  << Formatted(1, "user", <<"hello">>), Formatted(2, "assistant", <<"Hi">>),
     Formatted(3, "user", <<"bye">>), Formatted(4, "assistant", <<"there">>) >>

\* the (provider, model) pairs the user has stored an API key for
KeyedModels == {<<"openai", "gpt-4">>}

\* answer of GET /threads/{id}/messages: the thread of the sidebar has a stored
\* history, a thread the backend has just created has nothing stored yet
ServerAnswer(threadId) == IF threadId \in SidebarThreads THEN StoredThread ELSE <<>>

\* one "data: " line of the response body, as JSON.parse sees it; valid is
\* FALSE when JSON.parse throws, content is <<>> when the field is absent or ""
Line(valid, content, done, thread, error) ==
  [valid |-> valid, content |-> content, done |-> done, thread_id |-> thread, error |-> error]

ContentLine(c) == Line(TRUE, c, FALSE, None, None)
DoneLine(t) == Line(TRUE, <<>>, TRUE, t, None)
ErrorLine == Line(TRUE, <<>>, FALSE, None, "boom")
MalformedLine == Line(FALSE, <<>>, FALSE, None, None)

Lines == { ContentLine(<<"Hi">>), ContentLine(<<" there">>),
           DoneLine("t1"), DoneLine("t2"), ErrorLine, MalformedLine }

VARIABLES messages, isLoading, retryingMessageId, currentThreadId,
          selectedProvider, selectedModel, authToken,
          gens, loads, notified, now, elapsed, lastOp, requests, delivered, navs

vars == << messages, isLoading, retryingMessageId, currentThreadId,
           selectedProvider, selectedModel, authToken,
           gens, loads, notified, now, elapsed, lastOp, requests, delivered, navs >>

\* ------------------------------------------------------- TranscriptStore
Remove(msgs, id) == SelectSeq(msgs, LAMBDA m : m.id # id)

UpdateContent(msgs, id, c) ==
  [i \in DOMAIN msgs |-> IF msgs[i].id = id THEN [msgs[i] EXCEPT !.content = c] ELSE msgs[i]]

MarkComplete(msgs, id) ==
  [i \in DOMAIN msgs |-> IF msgs[i].id = id THEN [msgs[i] EXCEPT !.isStreaming = FALSE] ELSE msgs[i]]

\* Array.findIndex, 1-based; 0 stands for -1
FindIndex(msgs, id) ==
  IF \E i \in DOMAIN msgs : msgs[i].id = id
  THEN CHOOSE i \in DOMAIN msgs : msgs[i].id = id /\ \A j \in 1..(i-1) : msgs[j].id # id
  ELSE 0

\* ----------------------------------------------------------- generations
\* gens holds the sendMessage invocations that are running, and a finished one
\* until somebody else changes the transcript or the thread.  The fields
\* received, afterStart, solo and intact are history: solo says that no other
\* generation was running at the start and that only this generation's own
\* steps and thread loads have changed transcript or thread since; intact says
\* that no thread load has replaced the transcript since the start.
InFlight(g) == g.pc # "done"
AnyInFlight == \E i \in DOMAIN gens : InFlight(gens[i])

Forget(g) == [g EXCEPT !.solo = FALSE, !.received = <<>>, !.afterStart = <<>>]

Disturb(gs, actor, changed) ==
  LET flagged == [i \in DOMAIN gs |-> IF i # actor /\ changed THEN Forget(gs[i]) ELSE gs[i]]
  IN SelectSeq(flagged, LAMBDA g : InFlight(g) \/ g.solo)

Reloaded(gs, changed) ==
  [i \in DOMAIN gs |-> IF changed THEN [gs[i] EXCEPT !.intact = FALSE] ELSE gs[i]]

Init ==
  /\ messages = <<>>
  /\ isLoading = FALSE
  /\ retryingMessageId = NoId
  /\ currentThreadId = None
  /\ selectedProvider = "openai"
  /\ selectedModel = "gpt-4"
  /\ authToken = TRUE
  /\ gens = <<>>
  /\ loads = [t \in ThreadIds |-> 0]
  /\ notified = <<>>
  /\ now = 0
  /\ elapsed = TRUE
  /\ lastOp = [op |-> "none", result |-> "none"]
  /\ requests = 0
  /\ delivered = 0
  /\ navs = 0

\* trim that returns its argument
TrimNone(text) == text

\* String.prototype.trim on a token sequence: " " is the whitespace token
RECURSIVE TrimLeft(_)
TrimLeft(text) ==
  IF text # <<>> /\ Head(text) = " " THEN TrimLeft(Tail(text)) ELSE text

RECURSIVE TrimRight(_)
TrimRight(text) ==
  IF text # <<>> /\ text[Len(text)] = " " THEN TrimRight(SubSeq(text, 1, Len(text) - 1)) ELSE text

Trim(text) == TrimRight(TrimLeft(text))

\* values Date.now() can return at this moment
DateNow == IF elapsed THEN {now + 1} ELSE {now, now + 1}

NoOp == [op |-> "none", result |-> "none"]

\* NewGeneration whose request carries no thread id, whatever the session has
NewGenerationUnbound(op, content, aid, rp, rm, provider, model, after) ==
  [pc |-> "fetch", op |-> op, messageContent |-> content, aid |-> aid,
   threadId |-> currentThreadId, reqThreadId |-> None,
   retryProvider |-> rp, retryModel |-> rm, provider |-> provider, model |-> model,
   defaultProvider |-> selectedProvider, defaultModel |-> selectedModel,
   fullContent |-> <<>>, received |-> <<>>, wire |-> <<>>, outcome |-> "none",
   failure |-> "none",
   afterStart |-> after, solo |-> ~AnyInFlight, intact |-> TRUE]

NewGeneration(op, content, aid, rp, rm, provider, model, after) ==
  [pc |-> "fetch", op |-> op, messageContent |-> content, aid |-> aid,
   threadId |-> currentThreadId, reqThreadId |-> currentThreadId,
   retryProvider |-> rp, retryModel |-> rm, provider |-> provider, model |-> model,
   defaultProvider |-> selectedProvider, defaultModel |-> selectedModel,
   fullContent |-> <<>>, received |-> <<>>, wire |-> <<>>, outcome |-> "none",
   failure |-> "none",
   afterStart |-> after, solo |-> ~AnyInFlight, intact |-> TRUE]

\* sendMessage up to the fetch call; msgs and rid are the transcript and the
\* retryingMessageId the calling handler has set before the call
SendMessage(op, msgs, rid, messageContent, retryProvider, retryModel) ==
  IF Trim(messageContent) = <<>> THEN
    /\ messages' = msgs
    /\ retryingMessageId' = rid
    /\ gens' = Disturb(gens, 0, msgs # messages)
    /\ lastOp' = [op |-> op, result |-> "ignored"]
    /\ UNCHANGED << isLoading, now, elapsed, requests >>
  ELSE IF ~authToken THEN
    /\ messages' = msgs
    /\ retryingMessageId' = rid
    /\ gens' = Disturb(gens, 0, msgs # messages)
    /\ lastOp' = [op |-> op, result |-> "Authentication required"]
    /\ UNCHANGED << isLoading, now, elapsed, requests >>
  ELSE
    /\ requests < MaxGens
    /\ \E t \in DateNow :
      LET effectiveProvider == IF retryProvider # None THEN retryProvider ELSE selectedProvider
          effectiveModel == IF retryModel # None THEN retryModel ELSE selectedModel
          userMessage == Message(UserId(t), "user", messageContent, FALSE, None, None)
          withUser == IF retryProvider = None /\ retryModel = None
                      THEN Append(msgs, userMessage) ELSE msgs
          assistantMessageId == AssistantId(t)
          assistantMessage == Message(assistantMessageId, "assistant", <<>>, TRUE,
                                      effectiveProvider, effectiveModel)
          after == Append(withUser, assistantMessage)
      IN /\ isLoading' = TRUE
         /\ messages' = after
         /\ retryingMessageId' = rid
         /\ gens' = Append(Disturb(gens, 0, TRUE),
                           NewGeneration(op, messageContent, assistantMessageId,
                                         retryProvider, retryModel,
                                         effectiveProvider, effectiveModel, after))
         /\ now' = t
         /\ elapsed' = FALSE
         /\ requests' = requests + 1
         /\ lastOp' = [op |-> op, result |-> "started"]

\* a handler that returns before it touches anything
Ignored(op) ==
  UNCHANGED << messages, isLoading, retryingMessageId, gens, now, elapsed, requests, lastOp >>

HandleSend(inputValue) ==
  /\ IF Trim(inputValue) # <<>> /\ ~isLoading
     THEN SendMessage("send", messages, retryingMessageId, Trim(inputValue), None, None)
     ELSE Ignored("send")
  /\ UNCHANGED << currentThreadId, selectedProvider, selectedModel, authToken, loads,
                  notified, delivered, navs >>

\* the retry buttons ChatMessage renders for a message, and their disabled flag
RetryEnabled(m) ==
  /\ m.role = "assistant"
  /\ ~m.isStreaming
  /\ ~(isLoading /\ retryingMessageId = m.id)

\* RetryCommon that resends whatever precedes the target, user turn or not
RetryCommonUnchecked(op, messageId, provider, model) ==
  LET messageIndex == FindIndex(messages, messageId)
      userMessageIndex == messageIndex - 1
  IN IF messageIndex = 0 \/ userMessageIndex < 1 THEN Ignored(op)
     ELSE SendMessage(op, Remove(messages, messageId), messageId,
                      messages[userMessageIndex].content, provider, model)

RetryCommon(op, messageId, provider, model) ==
  LET messageIndex == FindIndex(messages, messageId)
      userMessageIndex == messageIndex - 1
  IN IF messageIndex = 0 THEN Ignored(op)
     ELSE IF userMessageIndex < 1 \/ messages[userMessageIndex].role # "user" THEN Ignored(op)
     ELSE SendMessage(op, Remove(messages, messageId), messageId,
                      messages[userMessageIndex].content, provider, model)

HandleRetry(messageId) ==
  /\ \E i \in DOMAIN messages : messages[i].id = messageId /\ RetryEnabled(messages[i])
  /\ RetryCommon("retry", messageId, None, None)
  /\ UNCHANGED << currentThreadId, selectedProvider, selectedModel, authToken, loads,
                  notified, delivered, navs >>

HandleRetryWithDifferentModel(messageId, provider, model) ==
  /\ \E i \in DOMAIN messages : messages[i].id = messageId /\ RetryEnabled(messages[i])
  /\ RetryCommon("retryWith", messageId, provider, model)
  /\ UNCHANGED << currentThreadId, selectedProvider, selectedModel, authToken, loads,
                  notified, delivered, navs >>

\* Fail with the placeholder kept and marked complete instead of removed
FailKeepsPlaceholder(i, kind) ==
  LET g == gens[i] IN
  /\ messages' = MarkComplete(messages, g.aid)
  /\ isLoading' = FALSE
  /\ retryingMessageId' = NoId
  /\ gens' = Disturb([gens EXCEPT ![i].pc = "done", ![i].outcome = "failed",
                                  ![i].failure = kind],
                     i, messages' # messages)
  /\ elapsed' = TRUE
  /\ lastOp' = NoOp
  /\ UNCHANGED << currentThreadId, selectedProvider, selectedModel, authToken, loads, notified,
                  now, requests, delivered, navs >>

\* Fail that opens the request again instead of giving up
FailAndRetry(i, kind) ==
  /\ requests < MaxGens
  /\ requests' = requests + 1
  /\ gens' = [gens EXCEPT ![i].pc = "fetch"]
  /\ elapsed' = TRUE
  /\ lastOp' = NoOp
  /\ UNCHANGED << messages, isLoading, retryingMessageId, currentThreadId, selectedProvider,
                  selectedModel, authToken, loads, notified, now, delivered, navs >>

\* catch + finally of sendMessage
Fail(i, kind) ==
  LET g == gens[i] IN
  /\ messages' = Remove(messages, g.aid)
  /\ isLoading' = FALSE
  /\ retryingMessageId' = NoId
  /\ gens' = Disturb([gens EXCEPT ![i].pc = "done", ![i].outcome = "failed",
                                  ![i].failure = kind],
                     i, messages' # messages)
  /\ elapsed' = TRUE
  /\ lastOp' = NoOp
  /\ UNCHANGED << currentThreadId, selectedProvider, selectedModel, authToken, loads, notified,
                  now, requests, delivered, navs >>

FetchOk(i) ==
  /\ gens[i].pc = "fetch"
  /\ gens' = [gens EXCEPT ![i].pc = "read"]
  /\ elapsed' = TRUE
  /\ lastOp' = NoOp
  /\ UNCHANGED << messages, isLoading, retryingMessageId, currentThreadId, selectedProvider,
                  selectedModel, authToken, loads, notified, now, requests, delivered, navs >>

\* response not ok ("http"), or fetch rejects / no body reader ("transport")
FetchFail(i, kind) ==
  /\ gens[i].pc = "fetch"
  /\ Fail(i, kind)

\* reader.read() rejects
ReadFail(i) ==
  /\ gens[i].pc = "read"
  /\ Fail(i, "transport")

\* useEffect on currentThreadId: runs when the value changed
EffectLoads(old, new) ==
  IF new # old /\ new # None /\ authToken THEN [loads EXCEPT ![new] = @ + 1] ELSE loads

EffectMessages(old, new, msgs) ==
  IF new # old /\ new = None THEN <<>> ELSE msgs

\* ProcessLine with the delta written over the content instead of appended
ProcessLineOverwrite(s, aid, line) ==
  IF ~line.valid THEN s
  ELSE
    LET fullContent == IF line.content # <<>> THEN line.content ELSE s.fullContent
        msgs == IF line.content # <<>>
                THEN UpdateContent(s.messages, aid, fullContent) ELSE s.messages
        bind == line.done /\ line.thread_id # None /\ s.threadId = None
    IN [messages |-> msgs,
        fullContent |-> fullContent,
        threadId |-> IF bind THEN line.thread_id ELSE s.threadId,
        created |-> IF bind THEN Append(s.created, line.thread_id) ELSE s.created]

\* ProcessLine with the text of an unparsable line shown instead of dropped
ProcessLineRaw(s, aid, line) ==
  LET text == IF ~line.valid THEN <<"?">> ELSE line.content
      fullContent == IF text # <<>> THEN s.fullContent \o text ELSE s.fullContent
      msgs == IF text # <<>> THEN UpdateContent(s.messages, aid, fullContent) ELSE s.messages
      bind == line.valid /\ line.done /\ line.thread_id # None /\ s.threadId = None
  IN [messages |-> msgs,
      fullContent |-> fullContent,
      threadId |-> IF bind THEN line.thread_id ELSE s.threadId,
      created |-> IF bind THEN Append(s.created, line.thread_id) ELSE s.created]

\* body of the for loop over the lines of one chunk
ProcessLine(s, aid, line) ==
  IF ~line.valid THEN s
  ELSE
    LET fullContent == IF line.content # <<>>
                       THEN s.fullContent \o line.content ELSE s.fullContent
        msgs == IF line.content # <<>>
                THEN UpdateContent(s.messages, aid, fullContent) ELSE s.messages
        bind == line.done /\ line.thread_id # None /\ s.threadId = None
    IN [messages |-> msgs,
        fullContent |-> fullContent,
        threadId |-> IF bind THEN line.thread_id ELSE s.threadId,
        created |-> IF bind THEN Append(s.created, line.thread_id) ELSE s.created]

RECURSIVE ProcessLines(_, _, _)
ProcessLines(s, aid, lines) ==
  IF lines = <<>> THEN s
  ELSE ProcessLines(ProcessLine(s, aid, Head(lines)), aid, Tail(lines))

Chunks == UNION { [1..n -> Lines] : n \in 1..MaxChunk }

\* one reader.read() that delivers a chunk
ReadChunk(i, chunk) ==
  LET g == gens[i]
      r == ProcessLines([messages |-> messages, fullContent |-> g.fullContent,
                         threadId |-> g.threadId, created |-> <<>>], g.aid, chunk)
      thread == IF r.created = <<>> THEN currentThreadId ELSE r.created[Len(r.created)]
  IN /\ g.pc = "read"
     /\ delivered + Len(chunk) <= MaxLines
     /\ delivered' = delivered + Len(chunk)
     /\ messages' = r.messages
     /\ currentThreadId' = thread
     /\ loads' = EffectLoads(currentThreadId, thread)
     /\ notified' = notified \o r.created
     /\ gens' = Disturb([gens EXCEPT ![i].fullContent = r.fullContent,
                                     ![i].threadId = r.threadId,
                                     ![i].received = IF g.solo THEN @ \o chunk ELSE @],
                        i, r.messages # messages \/ thread # currentThreadId)
     /\ elapsed' = TRUE
     /\ lastOp' = NoOp
     /\ UNCHANGED << isLoading, retryingMessageId, selectedProvider, selectedModel,
                     authToken, now, requests, navs >>

\* ------------------------------------------------------------ the wire
\* The text of a response body as tokens: the prefix "data: ", the braces of
\* the JSON object, one token for its fields, and the newline.
Fields == {"content:Hi", "content: there", "done,thread_id:t2"}

FieldRecord(f) ==
  CASE f = "content:Hi" -> ContentLine(<<"Hi">>)
    [] f = "content: there" -> ContentLine(<<" there">>)
    [] f = "done,thread_id:t2" -> DoneLine("t2")

WireLine(f) == << "data: ", "{", f, "}", "\n" >>

\* a well-formed body: two content records and the done record
WireStream ==
  WireLine("content:Hi") \o WireLine("content: there") \o WireLine("done,thread_id:t2")

\* JSON.parse(line.slice(6)); a text that is not a whole object makes it throw
JSONParse(text) ==
  IF Len(text) = 3 /\ text[1] = "{" /\ text[3] = "}" /\ text[2] \in Fields
  THEN FieldRecord(text[2])
  ELSE MalformedLine

\* chunk.split('\n')
RECURSIVE SplitLines(_)
SplitLines(text) ==
  IF \E k \in DOMAIN text : text[k] = "\n"
  THEN LET k == CHOOSE k \in DOMAIN text :
                  text[k] = "\n" /\ \A j \in 1..(k - 1) : text[j] # "\n"
       IN << SubSeq(text, 1, k - 1) >> \o SplitLines(SubSeq(text, k + 1, Len(text)))
  ELSE << text >>

\* the lines of one chunk that start with "data: ", parsed
RECURSIVE DecodePieces(_)
DecodePieces(pieces) ==
  IF pieces = <<>> THEN <<>>
  ELSE (IF Head(pieces) # <<>> /\ Head(pieces)[1] = "data: "
        THEN << JSONParse(Tail(Head(pieces))) >> ELSE <<>>)
       \o DecodePieces(Tail(pieces))

DecodeChunk(text) == DecodePieces(SplitLines(text))

\* one reader.read() that delivers the next n tokens of the body as a chunk
ReadBytes(i, n) ==
  LET g == gens[i]
      text == SubSeq(WireStream, Len(g.wire) + 1, Len(g.wire) + n)
      chunk == DecodeChunk(text)
      r == ProcessLines([messages |-> messages, fullContent |-> g.fullContent,
                         threadId |-> g.threadId, created |-> <<>>], g.aid, chunk)
      thread == IF r.created = <<>> THEN currentThreadId ELSE r.created[Len(r.created)]
  IN /\ g.pc = "read"
     /\ Len(g.wire) + n <= Len(WireStream)
     /\ messages' = r.messages
     /\ currentThreadId' = thread
     /\ loads' = EffectLoads(currentThreadId, thread)
     /\ notified' = notified \o r.created
     /\ gens' = Disturb([gens EXCEPT ![i].fullContent = r.fullContent,
                                     ![i].threadId = r.threadId,
                                     ![i].wire = @ \o text,
                                     ![i].received = IF g.solo THEN @ \o chunk ELSE @],
                        i, r.messages # messages \/ thread # currentThreadId)
     /\ elapsed' = TRUE
     /\ lastOp' = NoOp
     /\ UNCHANGED << isLoading, retryingMessageId, selectedProvider, selectedModel,
                     authToken, now, requests, delivered, navs >>

\* onProviderChange handed to ChatInterface as Sidebar gets it (setSelectedProvider)
OnProviderChangeWired(provider) == provider

\* Index renders ChatInterface without onProviderChange / onModelChange
OnProviderChange(provider) == selectedProvider
OnModelChange(model) == selectedModel

\* ReadEnd without the finally block: the loading state is never cleared
ReadEndNoFinally(i) ==
  LET g == gens[i] IN
  /\ g.pc = "read"
  /\ messages' = MarkComplete(messages, g.aid)
  /\ gens' = Disturb([gens EXCEPT ![i].pc = "done", ![i].outcome = "completed"],
                     i, messages' # messages)
  /\ elapsed' = TRUE
  /\ lastOp' = NoOp
  /\ UNCHANGED << isLoading, retryingMessageId, selectedProvider, selectedModel,
                  currentThreadId, authToken, loads, notified, now, requests, delivered, navs >>

\* reader.read() reports the end of the body: mark complete, finally
ReadEnd(i) ==
  LET g == gens[i] IN
  /\ g.pc = "read"
  /\ messages' = MarkComplete(messages, g.aid)
  /\ IF g.retryProvider # None /\ g.retryModel # None
     THEN /\ selectedProvider' = OnProviderChange(g.retryProvider)
          /\ selectedModel' = OnModelChange(g.retryModel)
     ELSE UNCHANGED << selectedProvider, selectedModel >>
  /\ isLoading' = FALSE
  /\ retryingMessageId' = NoId
  /\ gens' = Disturb([gens EXCEPT ![i].pc = "done", ![i].outcome = "completed"],
                     i, messages' # messages)
  /\ elapsed' = TRUE
  /\ lastOp' = NoOp
  /\ UNCHANGED << currentThreadId, authToken, loads, notified, now, requests, delivered, navs >>

\* Index.handleThreadSelect, then the effect of ChatInterface
HandleThreadSelect(threadId) ==
  /\ navs < MaxNav
  /\ navs' = navs + 1
  /\ currentThreadId' = threadId
  /\ loads' = EffectLoads(currentThreadId, threadId)
  /\ notified' = IF threadId # currentThreadId THEN <<>> ELSE notified
  /\ gens' = Disturb(gens, 0, threadId # currentThreadId)
  /\ lastOp' = NoOp
  /\ UNCHANGED << messages, isLoading, retryingMessageId, selectedProvider, selectedModel,
                  authToken, now, elapsed, requests, delivered >>

\* Index.handleNewChat, then the effect of ChatInterface
HandleNewChat ==
  /\ navs < MaxNav
  /\ navs' = navs + 1
  /\ currentThreadId' = None
  /\ messages' = EffectMessages(currentThreadId, None, messages)
  /\ notified' = IF currentThreadId # None THEN <<>> ELSE notified
  /\ gens' = Disturb(gens, 0, currentThreadId # None)
  /\ lastOp' = NoOp
  /\ UNCHANGED << isLoading, retryingMessageId, selectedProvider, selectedModel,
                  authToken, loads, now, elapsed, requests, delivered >>

\* loadThreadMessages after its fetch: the answer replaces the transcript
LoadResponse(threadId) ==
  /\ loads[threadId] > 0
  /\ loads' = [loads EXCEPT ![threadId] = @ - 1]
  /\ messages' = ServerAnswer(threadId)
  /\ gens' = Reloaded(gens, messages' # messages)
  /\ elapsed' = TRUE
  /\ lastOp' = NoOp
  /\ UNCHANGED << isLoading, retryingMessageId, currentThreadId, selectedProvider,
                  selectedModel, authToken, notified, now, requests, delivered, navs >>

\* response not ok, or the fetch throws: only logged
LoadFailed(threadId) ==
  /\ loads[threadId] > 0
  /\ loads' = [loads EXCEPT ![threadId] = @ - 1]
  /\ elapsed' = TRUE
  /\ lastOp' = NoOp
  /\ UNCHANGED << messages, isLoading, retryingMessageId, currentThreadId, selectedProvider,
                  selectedModel, authToken, gens, notified, now, requests, delivered, navs >>

\* localStorage belongs to the origin: the Index of another tab removes the
\* token (logout, or a token /auth/me rejects) while this session stays open
TokenRemoved ==
  /\ authToken
  /\ authToken' = FALSE
  /\ lastOp' = NoOp
  /\ UNCHANGED << messages, isLoading, retryingMessageId, currentThreadId, selectedProvider,
                  selectedModel, gens, loads, notified, now, elapsed, requests, delivered, navs >>

Next ==
  \/ \E text \in UserTexts \cup {<<" ">>} : HandleSend(text)
  \/ \E i \in DOMAIN messages : HandleRetry(messages[i].id)
  \/ \E i \in DOMAIN messages, pm \in Catalog :
        HandleRetryWithDifferentModel(messages[i].id, pm[1], pm[2])
  \/ \E i \in DOMAIN gens : FetchOk(i)
  \/ \E i \in DOMAIN gens, kind \in {"http", "transport"} : FetchFail(i, kind)
  \/ \E i \in DOMAIN gens, chunk \in Chunks : ReadChunk(i, chunk)
  \/ \E i \in DOMAIN gens : ReadEnd(i)
  \/ \E i \in DOMAIN gens : ReadFail(i)
  \/ \E t \in SidebarThreads : HandleThreadSelect(t)
  \/ HandleNewChat
  \/ \E t \in ThreadIds : LoadResponse(t)
  \/ \E t \in ThreadIds : LoadFailed(t)

Spec == Init /\ [][Next]_vars

\* Sequential use: the user starts a generation only when none is running,
\* stays in the conversation (no thread is selected, no new chat is opened) and
\* the token stays in place.
NextSolo ==
  \/ \E text \in UserTexts \cup {<<" ">>} : ~AnyInFlight /\ HandleSend(text)
  \/ \E i \in DOMAIN messages : ~AnyInFlight /\ HandleRetry(messages[i].id)
  \/ \E i \in DOMAIN messages, pm \in Catalog :
        ~AnyInFlight /\ HandleRetryWithDifferentModel(messages[i].id, pm[1], pm[2])
  \/ \E i \in DOMAIN gens : FetchOk(i)
  \/ \E i \in DOMAIN gens, kind \in {"http", "transport"} : FetchFail(i, kind)
  \/ \E i \in DOMAIN gens, chunk \in Chunks : ReadChunk(i, chunk)
  \/ \E i \in DOMAIN gens : ReadEnd(i)
  \/ \E i \in DOMAIN gens : ReadFail(i)
  \/ \E t \in ThreadIds : LoadResponse(t)
  \/ \E t \in ThreadIds : LoadFailed(t)

SpecSolo == Init /\ [][NextSolo]_vars

\* ChatInterface mounted again on the thread of the sidebar (Index shows it only
\* in the chat view): empty transcript, the effect has asked for the history
InitThread ==
  /\ messages = <<>>
  /\ isLoading = FALSE
  /\ retryingMessageId = NoId
  /\ currentThreadId \in SidebarThreads
  /\ selectedProvider = "openai"
  /\ selectedModel = "gpt-4"
  /\ authToken = TRUE
  /\ gens = <<>>
  /\ loads = [t \in ThreadIds |-> IF t = currentThreadId THEN 1 ELSE 0]
  /\ notified = <<>>
  /\ now = 0
  /\ elapsed = TRUE
  /\ lastOp = NoOp
  /\ requests = 0
  /\ delivered = 0
  /\ navs = 0

\* Sequential use in which the network answers: a pending fetch resolves or
\* rejects, and a body that is being read ends or fails.
FetchSettles == \E i \in DOMAIN gens : FetchOk(i) \/ FetchFail(i, "http") \/ FetchFail(i, "transport")
BodyEnds == \E i \in DOMAIN gens : ReadEnd(i) \/ ReadFail(i)

SpecLive == Init /\ [][NextSolo]_vars /\ WF_vars(FetchSettles) /\ WF_vars(BodyEnds)

\* Sequential use of a session opened on a stored thread.
SpecThread == InitThread /\ [][NextSolo]_vars

\* Sequential use in which the token can disappear.
NextAuth ==
  \/ NextSolo
  \/ TokenRemoved

SpecAuth == Init /\ [][NextAuth]_vars

\* Sequential use in which the body of every response is WireStream, cut into
\* chunks at any place.
NextWire ==
  \/ \E text \in UserTexts \cup {<<" ">>} : ~AnyInFlight /\ HandleSend(text)
  \/ \E i \in DOMAIN messages : ~AnyInFlight /\ HandleRetry(messages[i].id)
  \/ \E i \in DOMAIN messages, pm \in Catalog :
        ~AnyInFlight /\ HandleRetryWithDifferentModel(messages[i].id, pm[1], pm[2])
  \/ \E i \in DOMAIN gens : FetchOk(i)
  \/ \E i \in DOMAIN gens, kind \in {"http", "transport"} : FetchFail(i, kind)
  \/ \E i \in DOMAIN gens, n \in 1..Len(WireStream) : ReadBytes(i, n)
  \/ \E i \in DOMAIN gens : ReadEnd(i)
  \/ \E i \in DOMAIN gens : ReadFail(i)
  \/ \E t \in ThreadIds : LoadResponse(t)
  \/ \E t \in ThreadIds : LoadFailed(t)

SpecWire == Init /\ [][NextWire]_vars

\* Unrestricted use of a session opened on a stored thread, in which the token
\* can disappear; the user stays in the thread.
NextRace ==
  \/ \E text \in UserTexts \cup {<<" ">>} : HandleSend(text)
  \/ \E i \in DOMAIN messages : HandleRetry(messages[i].id)
  \/ \E i \in DOMAIN messages, pm \in Catalog :
        HandleRetryWithDifferentModel(messages[i].id, pm[1], pm[2])
  \/ \E i \in DOMAIN gens : FetchOk(i)
  \/ \E i \in DOMAIN gens, kind \in {"http", "transport"} : FetchFail(i, kind)
  \/ \E i \in DOMAIN gens, chunk \in Chunks : ReadChunk(i, chunk)
  \/ \E i \in DOMAIN gens : ReadEnd(i)
  \/ \E i \in DOMAIN gens : ReadFail(i)
  \/ \E t \in ThreadIds : LoadResponse(t)
  \/ \E t \in ThreadIds : LoadFailed(t)
  \/ TokenRemoved

SpecRace == InitThread /\ [][NextRace]_vars

\* ------------------------------------------------------------ properties
GenSet == { gens[i] : i \in DOMAIN gens }
Streaming == { i \in DOMAIN messages : messages[i].isStreaming }
Placeholders(g) == { i \in DOMAIN messages : messages[i].id = g.aid }

IsContentLine(l) == l.valid /\ l.content # <<>> /\ ~l.done /\ l.error = None
IsDoneLine(l) == l.valid /\ l.done /\ l.error = None
IsErrorLine(l) == l.valid /\ l.error # None

\* the content values of the records of a stream, in arrival order
RECURSIVE Concat(_)
Concat(lines) ==
  IF lines = <<>> THEN <<>>
  ELSE (IF Head(lines).valid THEN Head(lines).content ELSE <<>>) \o Concat(Tail(lines))

\* valid content lines followed by a done record
ValidStream(r) ==
  /\ Len(r) >= 2
  /\ IsDoneLine(r[Len(r)]) /\ r[Len(r)].content = <<>>
  /\ \A k \in 1..(Len(r) - 1) : IsContentLine(r[k])

\* a line JSON.parse rejects, somewhere between two content lines
MalformedBetween(r) ==
  \E a, b, c \in DOMAIN r :
    a < b /\ b < c /\ IsContentLine(r[a]) /\ ~r[b].valid /\ IsContentLine(r[c])

Undisturbed(g) == g.solo /\ g.intact
Finished(g) == g.pc = "done"
ButLast(q) == SubSeq(q, 1, Len(q) - 1)

\* C1: at most one message of the transcript has isStreaming = TRUE, in every
\* reachable state, whatever the interleaving of sends, retries and stream events.
C1_AtMostOneStreaming == Cardinality(Streaming) <= 1

\* C2: a send, retrySameModel or retryWithModel invoked while a generation of
\* the session is in flight is rejected: the transcript stays as it is and no
\* request is opened.
C2_StartRejectedWhileActive ==
  [][ (AnyInFlight /\ lastOp'.op \in {"send", "retry", "retryWith"})
        => (messages' = messages /\ requests' = requests) ]_vars

\* C3: every assistant message is immediately preceded by a user message, and
\* for a message produced by a generation that user message holds the text that
\* was sent to the backend for it.
C3_AssistantFollowsItsUser ==
  \A i \in DOMAIN messages :
    messages[i].role = "assistant" =>
      /\ i > 1
      /\ messages[i - 1].role = "user"
      /\ \A g \in GenSet : g.aid = messages[i].id => messages[i - 1].content = g.messageContent

\* C4: when a generation that ran undisturbed has received valid content lines
\* followed by a done record and has completed, its assistant message is in the
\* transcript exactly once, complete, and its content is the concatenation of
\* the content values in arrival order.
C4_ContentIsConcatenation ==
  \A g \in GenSet :
    (Finished(g) /\ g.outcome = "completed" /\ g.solo /\ ValidStream(g.received)) =>
      /\ g.fullContent = Concat(g.received)
      /\ \A i \in Placeholders(g) :
           messages[i].content = Concat(g.received) /\ ~messages[i].isStreaming
      /\ g.intact => Cardinality(Placeholders(g)) = 1

C4_Witness ==
  \E g \in GenSet :
    /\ Finished(g) /\ g.outcome = "completed" /\ Undisturbed(g)
    /\ ValidStream(g.received) /\ Len(g.received) = 3
    /\ \E i \in Placeholders(g) : Len(messages[i].content) = 2

\* C5: a malformed line between two valid content lines is dropped: the content
\* of the assistant message is the one the stream without the malformed lines
\* gives, the generation goes on reading, and if it ends it ends completed
\* unless the transport fails.
C5_MalformedLineDropped ==
  \A g \in GenSet :
    (g.solo /\ MalformedBetween(g.received)) =>
      /\ g.fullContent = Concat(SelectSeq(g.received, LAMBDA l : l.valid))
      /\ \A i \in Placeholders(g) : messages[i].content = g.fullContent
      /\ (g.intact /\ g.outcome # "failed") => Cardinality(Placeholders(g)) = 1
      /\ g.pc \in {"read", "done"}
      /\ g.outcome = "failed" => g.failure = "transport"

C5_Witness ==
  \E g \in GenSet :
    /\ Finished(g) /\ g.outcome = "completed" /\ Undisturbed(g)
    /\ MalformedBetween(g.received)
    /\ \E i \in Placeholders(g) : Len(messages[i].content) = 2

\* C6: once a record with an error field has been decoded the generation has
\* failed: the placeholder is gone from the transcript, the failure is reported
\* and nothing that follows the record is applied.
C6_ErrorRecordFails ==
  \A g \in GenSet :
    (Undisturbed(g) /\ \E k \in DOMAIN g.received : IsErrorLine(g.received[k])) =>
      /\ Finished(g) /\ g.outcome = "failed"
      /\ Placeholders(g) = {}

\* C7: a generation whose stream ended without a done or an error record has
\* failed: the placeholder is removed, the user message stays, and the
\* placeholder is neither complete nor streaming in the transcript.
C7_EndWithoutDoneFails ==
  \A g \in GenSet :
    (Finished(g) /\ Undisturbed(g) /\ g.failure = "none"
       /\ \A k \in DOMAIN g.received : ~IsDoneLine(g.received[k]) /\ ~IsErrorLine(g.received[k])) =>
      /\ g.outcome = "failed"
      /\ Placeholders(g) = {}
      /\ messages = ButLast(g.afterStart)

\* C8: after a generation that ran undisturbed has failed through a non-2xx
\* response or a transport exception, the transcript is the transcript right
\* after its start without the placeholder: one message shorter, the user
\* message of the turn and everything before it in place.
C8_FailureRemovesOnlyPlaceholder ==
  \A g \in GenSet :
    (Finished(g) /\ g.outcome = "failed" /\ g.failure \in {"http", "transport"}
       /\ Undisturbed(g)) =>
      /\ messages = ButLast(g.afterStart)
      /\ Len(messages) = Len(g.afterStart) - 1
      /\ Placeholders(g) = {}
      /\ g.op \in {"send", "retry"} =>
           /\ messages # <<>>
           /\ messages[Len(messages)].role = "user"
           /\ messages[Len(messages)].content = g.messageContent

C8_Witness ==
  /\ \E g \in GenSet :
       /\ Finished(g) /\ g.outcome = "failed" /\ Undisturbed(g)
       /\ g.failure = "transport" /\ g.received # <<>> /\ g.fullContent # <<>>
       /\ Len(g.afterStart) >= 2
       /\ messages = ButLast(g.afterStart)

\* C9: a send started without a thread id that receives content records and
\* then a done record carrying thread id t ends with the user message followed
\* by the complete assistant message holding the streamed content, the thread
\* id t, one notification for t and nothing loading.
C9_FirstExchangeBindsThread ==
  \A g \in GenSet :
    (Finished(g) /\ g.outcome = "completed" /\ g.solo /\ g.op = "send"
       /\ g.reqThreadId = None /\ ValidStream(g.received)
       /\ g.received[Len(g.received)].thread_id # None) =>
      /\ Len(messages) >= 2
      /\ messages[Len(messages) - 1].role = "user"
      /\ messages[Len(messages) - 1].content = g.messageContent
      /\ messages[Len(messages)].role = "assistant"
      /\ messages[Len(messages)].content = Concat(g.received)
      /\ ~messages[Len(messages)].isStreaming
      /\ currentThreadId = g.received[Len(g.received)].thread_id
      /\ notified = << g.received[Len(g.received)].thread_id >>
      /\ ~isLoading

\* C10: once the thread id has been set by a completion, no stream event
\* changes it.
C10_ThreadIdBoundOnce ==
  [][ (notified # <<>> /\ delivered' # delivered) => currentThreadId' = currentThreadId ]_vars

\* ------------------------------------------------------------------ retry
UserTurns(msgs) == SelectSeq(msgs, LAMBDA m : m.role = "user")
Ids(msgs) == { msgs[j].id : j \in DOMAIN msgs }

\* the message at position i is an assistant turn directly after a user turn
RetryableAt(i) ==
  /\ i > 1
  /\ messages[i].role = "assistant"
  /\ messages[i - 1].role = "user"
  /\ FindIndex(messages, messages[i].id) = i

\* the conditions under which handleRetry returns before it touches anything
InvalidRetryTarget(msgs, id) ==
  LET k == FindIndex(msgs, id) IN k = 0 \/ k = 1 \/ msgs[k - 1].role # "user"

\* C11: retryWithModel on an assistant turn directly after a user turn, invoked
\* with a token and with no generation running, leaves the user turns as they
\* were, removes the old assistant message, and puts right after the user turn
\* one new assistant message, empty, streaming, tagged with the given provider
\* and model.
C11_RetryWithReplacesTurn ==
  [][ \A i \in DOMAIN messages, pm \in Catalog :
        ( /\ ~AnyInFlight /\ authToken /\ RetryableAt(i)
          /\ HandleRetryWithDifferentModel(messages[i].id, pm[1], pm[2])
          /\ requests' = requests + 1 )
        => /\ UserTurns(messages') = UserTurns(messages)
           /\ messages[i].id \notin Ids(messages')
           /\ i \in DOMAIN messages'
           /\ messages'[i - 1] = messages[i - 1]
           /\ messages'[i].role = "assistant"
           /\ messages'[i].content = <<>>
           /\ messages'[i].isStreaming
           /\ messages'[i].provider = pm[1]
           /\ messages'[i].model = pm[2] ]_vars

\* C12: retrySameModel on an assistant turn directly after a user turn, invoked
\* with a token and with no generation running, replaces that turn only: the
\* user messages are the same as before, the old assistant message is gone and
\* one new placeholder tagged with the selected provider and model follows the
\* user turn.
C12_RetryKeepsUserTurns ==
  [][ \A i \in DOMAIN messages :
        ( /\ ~AnyInFlight /\ authToken /\ RetryableAt(i)
          /\ HandleRetry(messages[i].id)
          /\ requests' = requests + 1 )
        => /\ UserTurns(messages') = UserTurns(messages)
           /\ messages[i].id \notin Ids(messages')
           /\ i \in DOMAIN messages'
           /\ messages'[i].role = "assistant"
           /\ messages'[i].content = <<>>
           /\ messages'[i].isStreaming
           /\ messages'[i].provider = selectedProvider
           /\ messages'[i].model = selectedModel ]_vars

\* C13: a retry, with the same or with another model, whose target has no
\* message before it or a message that is not a user turn, changes nothing: the
\* transcript, the loading state and the retried id stay and no request is
\* opened.
C13_InvalidRetryTargetIgnored ==
  [][ \A i \in DOMAIN messages, pm \in Catalog :
        ( /\ InvalidRetryTarget(messages, messages[i].id)
          /\ \/ HandleRetry(messages[i].id)
             \/ HandleRetryWithDifferentModel(messages[i].id, pm[1], pm[2]) )
        => UNCHANGED << messages, requests, gens, isLoading, retryingMessageId >> ]_vars

\* a completed assistant turn that follows another assistant turn, on which the
\* retry button is enabled and a request could still be opened
C13_Witness ==
  /\ ~AnyInFlight /\ authToken /\ requests < MaxGens
  /\ \E i \in DOMAIN messages :
       /\ i > 1 /\ messages[i - 1].role = "assistant"
       /\ RetryEnabled(messages[i])
       /\ InvalidRetryTarget(messages, messages[i].id)
       /\ ENABLED (HandleRetry(messages[i].id) /\ UNCHANGED vars)

\* ---------------------------------------------------- model of the session
SawDone(g) == \E k \in DOMAIN g.received : IsDoneLine(g.received[k])
SawError(g) == \E k \in DOMAIN g.received : IsErrorLine(g.received[k])

\* C14: after a retryWithModel whose generation completed successfully (content,
\* a done record, the end of the body) the selected provider and model of the
\* session are the ones given to the retry.
C14_RetryWithUpdatesDefault ==
  \A g \in GenSet :
    (Finished(g) /\ g.op = "retryWith" /\ g.solo /\ g.outcome = "completed"
       /\ SawDone(g) /\ ~SawError(g)) =>
      /\ selectedProvider = g.retryProvider
      /\ selectedModel = g.retryModel

\* C15: after a retryWithModel whose generation ended in a failure (response
\* not ok, transport exception, error record, end of the body without a done
\* record) the selected provider and model are the ones from before the retry.
C15_FailedRetryKeepsDefault ==
  \A g \in GenSet :
    (Finished(g) /\ g.op = "retryWith" /\ g.solo
       /\ (g.outcome = "failed" \/ SawError(g) \/ ~SawDone(g))) =>
      /\ selectedProvider = g.defaultProvider
      /\ selectedModel = g.defaultModel

C15_Witness ==
  \E g \in GenSet :
    /\ Finished(g) /\ g.op = "retryWith" /\ Undisturbed(g)
    /\ g.retryProvider # g.defaultProvider
    /\ SawError(g) /\ ~SawDone(g)

\* a text that has nothing but whitespace
IsBlank(text) == \A k \in DOMAIN text : text[k] = " "

\* C16: a send whose text is empty after trimming changes nothing: no message is
\* appended, no request is opened, the loading state and the generations stay.
C16_EmptySendRejected ==
  [][ \A text \in UserTexts \cup {<<" ">>} :
        (IsBlank(text) /\ HandleSend(text))
        => UNCHANGED << messages, requests, isLoading, gens, retryingMessageId >> ]_vars

\* an idle session with a transcript, in which a request could be opened and
\* the send of a blank text runs and leaves every variable as it is
C16_Witness ==
  /\ messages # <<>> /\ ~isLoading /\ ~AnyInFlight /\ authToken /\ requests < MaxGens
  /\ IsBlank(<<" ">>)
  /\ ENABLED (HandleSend(<<" ">>) /\ UNCHANGED vars)

\* C17: without a token a send, a retrySameModel and a retryWithModel report
\* "Authentication required", open no request and leave the transcript as it
\* was before the operation.
C17_NoTokenLeavesTranscript ==
  [][ ( /\ ~authToken
        /\ \/ \E text \in UserTexts : HandleSend(text)
           \/ \E i \in DOMAIN messages :
                /\ RetryableAt(i)
                /\ \/ HandleRetry(messages[i].id)
                   \/ \E pm \in Catalog :
                        HandleRetryWithDifferentModel(messages[i].id, pm[1], pm[2]) )
      => ( /\ lastOp'.result = "Authentication required"
           /\ messages' = messages
           /\ requests' = requests ) ]_vars

\* C18: a send or a retry whose provider and model have no stored API key
\* opens no request and leaves the transcript unchanged.
C18_MissingKeyOpensNoRequest ==
  [][ ( \/ /\ << selectedProvider, selectedModel >> \notin KeyedModels
           /\ \/ \E text \in UserTexts : HandleSend(text)
              \/ \E i \in DOMAIN messages : HandleRetry(messages[i].id)
        \/ \E i \in DOMAIN messages, pm \in Catalog \ KeyedModels :
              HandleRetryWithDifferentModel(messages[i].id, pm[1], pm[2]) )
      => ( messages' = messages /\ requests' = requests ) ]_vars

\* C19: a request is opened only by a step that is a send, a retrySameModel or
\* a retryWithModel of the user, and such a step opens one request; nothing
\* else, a failure included, opens one.
C19_NoAutomaticRetry ==
  [][ requests' # requests =>
        /\ requests' = requests + 1
        /\ lastOp'.op \in {"send", "retry", "retryWith"}
        /\ lastOp'.result = "started"
        /\ \/ \E text \in UserTexts : HandleSend(text)
           \/ \E i \in DOMAIN messages : HandleRetry(messages[i].id)
           \/ \E i \in DOMAIN messages, pm \in Catalog :
                HandleRetryWithDifferentModel(messages[i].id, pm[1], pm[2]) ]_vars

C19_Witness ==
  /\ requests = 1 /\ ~isLoading /\ loads = [t \in ThreadIds |-> 0]
  /\ \E g \in GenSet :
       /\ Finished(g) /\ g.outcome = "failed" /\ Undisturbed(g)
       /\ g.received # <<>>
       /\ Placeholders(g) = {}

\* ------------------------------------------------- streams and thread loads
\* the records of a stream up to and including its first done record
RECURSIVE UpToDone(_)
UpToDone(lines) ==
  IF lines = <<>> THEN <<>>
  ELSE IF IsDoneLine(Head(lines)) THEN << Head(lines) >>
  ELSE << Head(lines) >> \o UpToDone(Tail(lines))

\* C21: a message whose isStreaming flag is false keeps its content: a step
\* that leaves the message at its place in the transcript leaves its content.
C21_CompleteContentFrozen ==
  [][ Len(messages') = Len(messages) =>
        \A i \in DOMAIN messages :
          (~messages[i].isStreaming /\ messages'[i].id = messages[i].id)
          => messages'[i].content = messages[i].content ]_vars

\* C22: within one session (between two changes of the thread made by the
\* user) the thread-created notification is issued at most once.
C22_NotifiesAtMostOnce == Len(notified) <= 1

\* C23: a thread load that is answered while a generation is in flight leaves
\* the placeholder of that generation in the transcript, directly after its
\* user turn.
C23_LoadKeepsPlaceholder ==
  [][ \A t \in ThreadIds, g \in GenSet :
        (InFlight(g) /\ Placeholders(g) # {} /\ LoadResponse(t))
        => \E j \in DOMAIN messages' :
             /\ messages'[j].id = g.aid
             /\ j > 1 /\ messages'[j - 1].role = "user" ]_vars

\* C25: the records that follow the first done record of a stream change
\* nothing: the content accumulated for the assistant message is the content of
\* the records up to that done record.
C25_AfterDoneIgnored ==
  \A g \in GenSet :
    (g.solo /\ SawDone(g)) => g.fullContent = Concat(UpToDone(g.received))

\* C28: the ids of the messages in the transcript are pairwise distinct.
C28_IdsDistinct ==
  \A i, j \in DOMAIN messages : i # j => messages[i].id # messages[j].id

\* C30: when the user has selected a stored thread and a generation that was
\* started before, without a thread id, is still reading, no record of its
\* stream changes the selected thread id or asks for another thread's history.
C30_LeftSessionKeepsThread ==
  [][ \A i \in DOMAIN gens, chunk \in Chunks :
        ( /\ navs > 0 /\ notified = <<>> /\ currentThreadId \in SidebarThreads
          /\ gens[i].threadId = None
          /\ ReadChunk(i, chunk) )
        => (currentThreadId' = currentThreadId /\ loads' = loads) ]_vars

\* --------------------------------------------------- requests and retries
\* the generation has received a done record that carries thread id t
BoundBy(g, t) ==
  \E k \in DOMAIN g.received : IsDoneLine(g.received[k]) /\ g.received[k].thread_id = t

\* msgs without the message at position k
Without(msgs, k) == SubSeq(msgs, 1, k - 1) \o SubSeq(msgs, k + 1, Len(msgs))

\* C26: a request carries the thread id the session is bound to: a generation
\* whose request carries a thread id carries the id the session was bound to by
\* the notification, and a generation whose request carries none while the
\* session is bound is the one whose own done record bound it.
C26_RequestCarriesThread ==
  \A g \in GenSet :
    g.solo =>
      /\ g.reqThreadId # None => notified = << g.reqThreadId >>
      /\ (g.reqThreadId = None /\ notified # <<>>) => BoundBy(g, notified[1])
      /\ (g.reqThreadId = None /\ notified = <<>>) => currentThreadId = None

C26_Witness ==
  \E g \in GenSet :
    /\ Finished(g) /\ g.outcome = "completed" /\ g.solo /\ g.op = "send"
    /\ g.reqThreadId \in ThreadIds
    /\ notified = << g.reqThreadId >> /\ currentThreadId = g.reqThreadId
    /\ requests = 2

\* C27: a retry removes the targeted assistant message and nothing else: the
\* transcript after the retry begins with the transcript before it without the
\* target, in the same order.
C27_RetryRemovesOnlyTarget ==
  [][ \A i \in DOMAIN messages :
        ( /\ RetryableAt(i)
          /\ \/ HandleRetry(messages[i].id)
             \/ \E pm \in Catalog :
                  HandleRetryWithDifferentModel(messages[i].id, pm[1], pm[2])
          /\ messages' # messages )
        => /\ Len(messages') >= Len(messages) - 1
           /\ SubSeq(messages', 1, Len(messages) - 1) = Without(messages, i) ]_vars

\* --------------------------------------------------------------- decoding
\* what the body received so far gives when it is decoded as one chunk
Whole(g) ==
  ProcessLines([messages |-> <<>>, fullContent |-> <<>>,
                threadId |-> g.reqThreadId, created |-> <<>>], g.aid, DecodeChunk(g.wire))

\* C24: the events decoded from a body do not depend on where it is cut into
\* chunks: whenever the text received ends with a newline, the content and the
\* thread id the generation has are those of the same text decoded as one chunk.
C24_ChunkingIndependent ==
  \A g \in GenSet :
    (g.wire # <<>> /\ g.wire[Len(g.wire)] = "\n") =>
      /\ g.fullContent = Whole(g).fullContent
      /\ g.threadId = Whole(g).threadId

\* ------------------------------------------------------------ termination
Busy == AnyInFlight \/ isLoading \/ Streaming # {}

\* C29: when every fetch settles and every body ends or fails, a started
\* generation leads to a state in which nothing is loading, no generation is
\* running and no message of the transcript is streaming.
C29_GenerationsEnd == Busy ~> ~Busy

C29_Witness ==
  /\ ~Busy /\ requests = MaxGens
  /\ \E g \in GenSet :
       /\ Finished(g) /\ g.outcome = "completed" /\ Undisturbed(g) /\ g.received # <<>>
       /\ \E i \in Placeholders(g) : ~messages[i].isStreaming
====
